---------------------------- MODULE Spec2Model ----------------------------
(***************************************************************************)
(* The lifecycle hook of the start-word2pdf template (src/hook/index.js).  *)
(*                                                                         *)
(* The module exports two async functions, preInit and postInit.  Each     *)
(* passes one template literal to console.log and falls off its end.  A   *)
(* host (the scaffolding tool) calls the exported functions, in any order  *)
(* and with any argument, and may or may not await the promise a call      *)
(* returns before it starts the next call.                                 *)
(*                                                                         *)
(* Text is modelled by strings: the raw source text of each template       *)
(* literal is written down line by line and cooked (escape sequences       *)
(* replaced) the way the language cooks a template literal; console.log    *)
(* appends a line feed and writes to the standard output stream.           *)
(***************************************************************************)
EXTENDS Naturals, Sequences, FiniteSets

VARIABLES
    calls,     \* the calls the host has started, in call-start order
    stdout     \* every character written to standard output so far

vars == <<calls, stdout>>

\* How many hook calls the host starts in one run of the model.
MaxCalls == 2

---------------------------------------------------------------------------
(* JavaScript values the host may pass as the hook's argument. *)

JSValue(type, str, props) == [type |-> type, str |-> str, props |-> props]

Undefined == JSValue("undefined", "", {})
Null == JSValue("null", "", {})
EmptyObject == JSValue("object", "", {})
\* {oss_file: "example.docx"}
OssFileObject == JSValue("object", "", {<<"oss_file", "example.docx">>})
\* a malformed configuration: a string instead of an object
MalformedString == JSValue("string", "not-a-config", {})

Inputs == {Undefined, Null, EmptyObject, OssFileObject, MalformedString}

NormalCompletion(value) == [type |-> "normal", value |-> value]
ThrowCompletion(value) == [type |-> "throw", value |-> value]

\* The error thrown by a read of a property of undefined or null.
TypeError == JSValue("object", "TypeError", {})

---------------------------------------------------------------------------
(* Strings. *)

Contains(s, sub) ==
    \E i \in 1..(Len(s) + 1) :
        /\ i + Len(sub) - 1 <= Len(s)
        /\ SubSeq(s, i, i + Len(sub) - 1) = sub

CharAt(s, i) == SubSeq(s, i, i)

\* The character an escape sequence \c of a template literal stands for.
EscapeChar(c) ==
    CASE c = "n" -> "\n"
      [] c = "t" -> "\t"
      [] c = "r" -> "\r"
      [] OTHER -> c

\* The number of backslashes that stand in a row right before position i.
BackslashRun(raw, i) ==
    CHOOSE n \in 0..(i - 1) :
        /\ \A j \in (i - n)..(i - 1) : CharAt(raw, j) = "\\"
        /\ (n < i - 1 => CharAt(raw, i - n - 1) # "\\")

\* Position i is the character of an escape sequence: an odd number of
\* backslashes precedes it, the last of which introduces the sequence.
Escaped(raw, i) == BackslashRun(raw, i) % 2 = 1

\* What the character at position i of the raw text contributes to the
\* cooked text: a backslash that introduces an escape sequence nothing, the
\* character after it the character the sequence stands for.
CookedAt(raw, i) ==
    IF Escaped(raw, i) THEN EscapeChar(CharAt(raw, i))
    ELSE IF CharAt(raw, i) = "\\" /\ i < Len(raw) THEN ""
    ELSE CharAt(raw, i)

RECURSIVE CookRange(_, _, _)
CookRange(raw, lo, hi) ==
    IF lo > hi THEN ""
    ELSE IF lo = hi THEN CookedAt(raw, lo)
    ELSE LET mid == (lo + hi) \div 2
         IN CookRange(raw, lo, mid) \o CookRange(raw, mid + 1, hi)

\* A mutant: the raw text is taken as it stands (String.raw), no escape
\* sequence is replaced.
Cook_raw(raw) == raw

\* The cooked value of one line of a template literal's raw text.
Cook(raw) == CookRange(raw, 1, Len(raw))

RECURSIVE JoinLines(_)
JoinLines(lines) ==
    IF Len(lines) = 0 THEN ""
    ELSE IF Len(lines) = 1 THEN lines[1]
    ELSE lines[1] \o "\n" \o JoinLines(Tail(lines))

\* The value of a template literal without substitutions whose raw text is
\* the source lines rawLines: the line breaks of the source are line feeds.
TemplateValue(rawLines) ==
    JoinLines([i \in 1..Len(rawLines) |-> Cook(rawLines[i])])

---------------------------------------------------------------------------
(* The two template literals of src/hook/index.js, raw, one source line    *)
(* each.  A character outside ASCII is spelled <U+hhhh>, its code point.   *)

preInitRaw ==
    << "\\n                            .___________            .___ _____ ",
       "    __  _  _____________  __| _/\\\\_____  \\\\______   __| _// ____\\\\",
       "    \\\\ \\\\/ \\\\/ /  _ \\\\_  __ \\\\/ __ |  /  ____/\\\\____ \\\\ / __ |\\\\   __\\\\ ",
       "     \\\\     (  <_> )  | \\\\/ /_/ | /       \\\\|  |_> > /_/ | |  |   ",
       "      \\\\/\\\\_/ \\\\____/|__|  \\\\____ | \\\\_______ \\\\   __/\\\\____ | |__|   ",
       "                         \\\\/         \\\\/__|        \\\\/        " >>

postInitRaw ==
    << "\\n    Welcome to the start-bottle application",
       "     This application requires to open these services: ",
       "         FC : https://fc.console.aliyun.com/",
       "         ACR: https://cr.console.aliyun.com/",
       "         OSS: https://oss.console.aliyun.com/",
       "     ",
       "     * <U+989D><U+5916><U+8BF4><U+660E><U+FF1A>",
       "        1. <U+5B8C><U+6210><U+9879><U+76EE><U+521D><U+59CB><U+5316><U+4E4B><U+540E><U+FF0C><U+9700><U+8981><U+5728>s.yaml<U+4E2D><U+8FDB><U+884C><U+76F8><U+5173><U+5185><U+5BB9><U+7684><U+914D><U+7F6E><U+FF1A>",
       "           - <U+5728>environmentVariables<U+53C2><U+6570><U+4E0B><U+FF0C><U+914D><U+7F6E><U+5BF9><U+8C61><U+5B58><U+50A8><U+76F8><U+5173><U+7684><U+4FE1><U+606F>",
       "           - <U+5728>customContainerConfig<U+53C2><U+6570><U+4E0B><U+FF0C><U+914D><U+7F6E><U+5BB9><U+5668><U+955C><U+50CF><U+76F8><U+5173><U+4FE1><U+606F>",
       "     * <U+5B8C><U+6210><U+4E0A><U+8FF0><U+64CD><U+4F5C><U+4E4B><U+540E><U+FF0C><U+53EF><U+4F7F><U+7528> s deploy <U+8FDB><U+884C><U+9879><U+76EE><U+90E8><U+7F72>",
       "     * <U+53EF><U+4EE5><U+901A><U+8FC7>invoke<U+547D><U+4EE4><U+8FDB><U+884C><U+76F8><U+5173><U+7684><U+89E6><U+53D1><U+FF1A>s invoke -e '{\"oss_file\":\"word2pdf/example.docx\"}'\\n" >>

\* The invocation example of the readme.
readme_invoke_example == "s invoke -e '{\"oss_file\":\"word2pdf/example.docx\"}'"

---------------------------------------------------------------------------
(* The hooks.  The value of a hook body is what it does when it runs: the  *)
(* strings it passes to console.log, in order, and how it completes.       *)

Body(logs, completion) == [logs |-> logs, completion |-> completion]

\* The banner and the welcome message: the values of the two literals.
preInitText == TemplateValue(preInitRaw)
postInitText == TemplateValue(postInitRaw)

\* Mutants of preInit.
\* It reads a field of its argument before it prints: reading a property of
\* undefined or null throws a TypeError.
preInit_readsInput(inputObj) ==
    IF inputObj.type \in {"undefined", "null"}
    THEN Body(<<>>, ThrowCompletion(TypeError))
    ELSE Body(<<preInitText>>, NormalCompletion(Undefined))

\* It prints the banner only the first time it is called.
preInit_once(inputObj) ==
    IF \E k \in 1..Len(calls) : calls[k].fn = "preInit"
    THEN Body(<<>>, NormalCompletion(Undefined))
    ELSE Body(<<preInitText>>, NormalCompletion(Undefined))

\* It prints the banner with two console.log calls.
preInit_twoWrites(inputObj) ==
    Body(<<preInitText, "">>, NormalCompletion(Undefined))

\* It returns its argument.
preInit_returnsInput(inputObj) ==
    Body(<<preInitText>>, NormalCompletion(inputObj))

preInit(inputObj) ==
    Body(<<preInitText>>, NormalCompletion(Undefined))

\* Mutants of postInit.
\* The welcome message with the invocation example of src/readme.md in the
\* place of its last line.
postInit_wordFile(inputObj) ==
    Body(<<TemplateValue(SubSeq(postInitRaw, 1, Len(postInitRaw) - 1)
              \o <<"     * s invoke -e '{\"word_file\":\"example.docx\"}'\\n">>)>>,
         NormalCompletion(Undefined))

\* The welcome message followed by the oss_file of its argument, when the
\* argument has one.
postInit_printsInput(inputObj) ==
    Body(<<postInitText \o
             (IF \E p \in inputObj.props : p[1] = "oss_file"
              THEN (CHOOSE p \in inputObj.props : p[1] = "oss_file")[2]
              ELSE "")>>,
         NormalCompletion(Undefined))

postInit(inputObj) ==
    Body(<<postInitText>>, NormalCompletion(Undefined))

\* A mutant: a third function is exported.
module_exports_init == [postInit |-> 1, preInit |-> 1, init |-> 1]

\* module.exports: the exported names, each with the number of parameters
\* of the function it names.
module_exports == [postInit |-> 1, preInit |-> 1]

\* The body the host runs when it calls the export named fn.
Hook(fn, inputObj) ==
    CASE fn = "preInit" -> preInit(inputObj)
      [] fn = "postInit" -> postInit(inputObj)
      [] OTHER -> Body(<<>>, NormalCompletion(Undefined))

\* console.log(data) with the one string argument data: data and a line
\* feed, in a single write to standard output.
console_log(data) == data \o "\n"

\* A mutant: the data is put before what was written earlier.
stdout_write_first(out, data) == data \o out

\* The standard output stream after one write of data.
stdout_write(out, data) == out \o data

---------------------------------------------------------------------------
(* The state machine. *)

\* A call's promise before the call has returned.
NoPromise == [state |-> "none", value |-> Undefined]

Init ==
    /\ calls = <<>>
    /\ stdout = ""

Running(k) == calls[k].pc = "body"

\* The host calls an export.  JavaScript is single-threaded and the bodies
\* never await: a call is started only when no body is running.
Invoke(fn, inputObj) ==
    /\ Len(calls) < MaxCalls
    /\ \A k \in 1..Len(calls) : ~Running(k)
    /\ calls' = Append(calls,
                  [fn |-> fn, nargs |-> module_exports[fn],
                   inputObj |-> inputObj, pc |-> "body",
                   body |-> Hook(fn, inputObj),
                   written |-> "", nwrites |-> 0,
                   promise |-> NoPromise, result |-> NoPromise])
    /\ UNCHANGED stdout

\* The running body executes its next console.log call.
ConsoleLog(k) ==
    /\ Running(k)
    /\ calls[k].nwrites < Len(calls[k].body.logs)
    /\ LET data == console_log(calls[k].body.logs[calls[k].nwrites + 1])
       IN /\ stdout' = stdout_write(stdout, data)
          /\ calls' = [calls EXCEPT
                         ![k].written = calls[k].written \o data,
                         ![k].nwrites = calls[k].nwrites + 1]

\* The body is done: the async function settles its promise with the
\* body's completion and returns the promise to the host.
Return(k) ==
    /\ Running(k)
    /\ calls[k].nwrites = Len(calls[k].body.logs)
    /\ calls' = [calls EXCEPT
                   ![k].pc = "returned",
                   ![k].promise =
                       [state |-> IF calls[k].body.completion.type = "normal"
                                  THEN "fulfilled" ELSE "rejected",
                        value |-> calls[k].body.completion.value]]
    /\ UNCHANGED stdout

\* The host awaits the promise of a call that has returned.
Await(k) ==
    /\ calls[k].pc = "returned"
    /\ calls' = [calls EXCEPT ![k].pc = "awaited",
                              ![k].result = calls[k].promise]
    /\ UNCHANGED stdout

Next ==
    \/ \E fn \in DOMAIN module_exports, inputObj \in Inputs : Invoke(fn, inputObj)
    \/ \E k \in 1..Len(calls) : ConsoleLog(k)
    \/ \E k \in 1..Len(calls) : Return(k)
    \/ \E k \in 1..Len(calls) : Await(k)

Spec == Init /\ [][Next]_vars

\* The engine runs a body that has started to its end.
FairSpec ==
    /\ Spec
    /\ WF_vars(\E k \in 1..Len(calls) : ConsoleLog(k))
    /\ WF_vars(\E k \in 1..Len(calls) : Return(k))

---------------------------------------------------------------------------
(* The claims. *)

Returned(k) == calls[k].pc \in {"returned", "awaited"}

\* The text block a call of fn is to leave on standard output.
ExpectedBlock(fn) ==
    (IF fn = "preInit" THEN preInitText ELSE postInitText) \o "\n"

\* C1: no call of either hook ends in an error outcome: whatever the
\* argument (undefined, null, an empty object, a malformed value), the
\* promise of a call that has returned is fulfilled, never rejected, and the
\* host that awaits it receives no rejection.
NoErrorOutcome ==
    \A k \in 1..Len(calls) :
        /\ calls[k].promise.state # "rejected"
        /\ calls[k].result.state # "rejected"
        /\ Returned(k) => calls[k].promise.state = "fulfilled"
        /\ calls[k].pc = "awaited" => calls[k].result.state = "fulfilled"

NoErrorOutcomeWitness ==
    \E j, k \in 1..Len(calls) :
        /\ calls[j].fn = "preInit" /\ calls[j].inputObj = Null
        /\ calls[j].pc = "awaited"
        /\ calls[k].fn = "postInit" /\ calls[k].inputObj = Undefined
        /\ calls[k].pc = "awaited"

\* The rows of the banner, as printed: glyphs that draw the application
\* name word2pdf.
AppNameBanner ==
    << "                            .___________            .___ _____ ",
       "    __  _  _____________  __| _/\\_____  \\______   __| _// ____\\",
       "    \\ \\/ \\/ /  _ \\_  __ \\/ __ |  /  ____/\\____ \\ / __ |\\   __\\ ",
       "     \\     (  <_> )  | \\/ /_/ | /       \\|  |_> > /_/ | |  |   ",
       "      \\/\\_/ \\____/|__|  \\____ | \\_______ \\   __/\\____ | |__|   ",
       "                         \\/         \\/__|        \\/        " >>

\* C2: for every argument, the text a preInit call has written to standard
\* output is not empty and contains the application's name banner (every
\* row of the glyphs that draw word2pdf).
PreInitPrintsAppName ==
    \A k \in 1..Len(calls) :
        (calls[k].fn = "preInit" /\ Returned(k)) =>
            /\ Len(calls[k].written) > 0
            /\ \A r \in 1..Len(AppNameBanner) :
                   Contains(calls[k].written, AppNameBanner[r])

PreInitPrintsAppNameWitness ==
    \E k \in 1..Len(calls) :
        /\ calls[k].fn = "preInit" /\ calls[k].inputObj = EmptyObject
        /\ Returned(k)
        /\ Contains(stdout, AppNameBanner[2])

\* C3: for every argument, the text a postInit call has written names the
\* three services FC, ACR and OSS and contains the sample invocation
\* command s invoke -e '{"oss_file":"word2pdf/example.docx"}'.
PostInitListsServicesAndSample ==
    \A k \in 1..Len(calls) :
        (calls[k].fn = "postInit" /\ Returned(k)) =>
            /\ Contains(calls[k].written, "FC")
            /\ Contains(calls[k].written, "ACR")
            /\ Contains(calls[k].written, "OSS")
            /\ Contains(calls[k].written, readme_invoke_example)

PostInitListsServicesAndSampleWitness ==
    \E k \in 1..Len(calls) :
        /\ calls[k].fn = "postInit" /\ calls[k].inputObj = OssFileObject
        /\ Returned(k)
        /\ Contains(stdout, readme_invoke_example)

\* The first call of the hook that call k calls.
FirstCall(k) ==
    CHOOSE j \in 1..k :
        /\ calls[j].fn = calls[k].fn
        /\ \A i \in 1..(j - 1) : calls[i].fn # calls[k].fn

\* C4: both hooks are idempotent: whatever calls came before, a call that
\* has returned has written exactly the text the first call of the same
\* hook wrote, in as many writes.
RepeatedCallsWriteTheSame ==
    \A k \in 1..Len(calls) :
        Returned(k) =>
            /\ calls[k].written = calls[FirstCall(k)].written
            /\ calls[k].nwrites = calls[FirstCall(k)].nwrites

RepeatedCallsWriteTheSameWitness ==
    \E i, k \in 1..Len(calls) :
        /\ i < k
        /\ calls[i].fn = calls[k].fn
        /\ calls[i].pc = "returned" /\ Returned(k)
        /\ calls[k].written # ""
        /\ stdout = calls[i].written \o calls[k].written

\* C5: the argument is never read: two calls of the same hook write the
\* same text and complete the same way whatever their arguments are.
ArgumentNeverRead ==
    \A j, k \in 1..Len(calls) :
        (/\ calls[j].fn = calls[k].fn
         /\ calls[j].inputObj # calls[k].inputObj
         /\ Returned(j) /\ Returned(k)) =>
            /\ calls[j].written = calls[k].written
            /\ calls[j].promise = calls[k].promise

ArgumentNeverReadWitness ==
    \E j, k \in 1..Len(calls) :
        /\ calls[j].fn = "postInit" /\ calls[k].fn = "postInit"
        /\ calls[j].inputObj = OssFileObject /\ calls[k].inputObj = Undefined
        /\ Returned(j) /\ Returned(k)
        /\ calls[j].written = calls[k].written

\* C6: the module's interface is exactly the two entry points preInit and
\* postInit, each with one parameter: the host finds no other export to
\* call.
ExportsExactlyTwoHooks ==
    /\ DOMAIN module_exports = {"preInit", "postInit"}
    /\ \A k \in 1..Len(calls) :
           /\ calls[k].fn \in {"preInit", "postInit"}
           /\ calls[k].nargs = 1

ExportsExactlyTwoHooksWitness ==
    \E j, k \in 1..Len(calls) :
        /\ calls[j].fn = "preInit" /\ calls[k].fn = "postInit"
        /\ Returned(j) /\ Returned(k)

\* A call that has returned has made exactly one write, of its whole block.
OneWriteBeforeReturn ==
    \A k \in 1..Len(calls) :
        Returned(k) =>
            /\ calls[k].nwrites = 1
            /\ calls[k].written = ExpectedBlock(calls[k].fn)
            /\ Len(stdout) >= Len(calls[k].written)

\* C7: every call terminates, and when it returns, awaited or not, it has
\* made exactly one write to standard output, of its whole text block.
CallWritesOnceThenReturns ==
    /\ []OneWriteBeforeReturn
    /\ \A k \in 1..MaxCalls :
           (Len(calls) >= k /\ Running(k)) ~> (Len(calls) >= k /\ Returned(k))

CallWritesOnceThenReturnsWitness ==
    \E k \in 1..Len(calls) :
        /\ calls[k].pc = "returned"
        /\ calls[k].nwrites = 1
        /\ k = Len(calls)
        /\ stdout # ""

\* C8: the completion value carries no data: the promise of a call that
\* has returned holds undefined, and so does what the host receives when it
\* awaits it.
CompletionValueIsUndefined ==
    \A k \in 1..Len(calls) :
        /\ Returned(k) => calls[k].promise.value = Undefined
        /\ calls[k].pc = "awaited" => calls[k].result.value = Undefined

CompletionValueIsUndefinedWitness ==
    \E j, k \in 1..Len(calls) :
        /\ calls[j].fn = "preInit" /\ calls[j].inputObj = OssFileObject
        /\ calls[j].pc = "awaited"
        /\ calls[k].fn = "postInit" /\ calls[k].inputObj = MalformedString
        /\ calls[k].pc = "awaited"

\* The blocks of the first n calls, one after the other: a call that has
\* not printed yet has no block.
RECURSIVE BlocksOf(_)
BlocksOf(n) ==
    IF n = 0 THEN ""
    ELSE BlocksOf(n - 1) \o
         (IF calls[n].nwrites = 0 THEN "" ELSE ExpectedBlock(calls[n].fn))

\* C9: whatever the order and number of the calls, awaited or not, standard
\* output is the whole text blocks of the calls in call-start order:
\* nothing is interleaved, nothing dropped.
StdoutIsBlocksInCallOrder ==
    stdout = BlocksOf(Len(calls))

StdoutIsBlocksInCallOrderWitness ==
    /\ Len(calls) >= 2
    /\ calls[1].fn = "postInit" /\ calls[1].pc = "returned"
    /\ calls[2].fn = "preInit" /\ calls[2].nwrites = 1
    /\ stdout = ExpectedBlock("postInit") \o ExpectedBlock("preInit")

TypeOK ==
    /\ Len(calls) <= MaxCalls
    /\ \A k \in 1..Len(calls) :
         calls[k].pc \in {"body", "returned", "awaited"}

===========================================================================
